---- MODULE Spec2Model ----
(***************************************************************************)
(* Model of insta-graph: the job lifecycle of app/main.py (create_analysis, *)
(* run_analysis, get_analysis) and the recursive follower traversal of      *)
(* app/scraper.py (InstagramScraper.analyze_recursive with get_user_info,   *)
(* get_followers and the Redis profile cache).                              *)
(*                                                                         *)
(* Optional values (Python None or a value) are sequences of length 0 or 1. *)
(* The follower graph behind the instagrapi client is revealed lazily: the  *)
(* first successful provider call about an account fixes the answer, and    *)
(* later calls return the same answer.                                      *)
(*                                                                         *)
(* Specifications: Spec (concurrent jobs and polls over a fixed graph),     *)
(* SpecFair (Spec with fairly scheduled workers), SpecTraverse (one job     *)
(* over every graph) and SpecExpiry (one job while the Redis clock runs).   *)
(***************************************************************************)
EXTENDS Integers, Sequences, FiniteSets, TLC

\* ------------------------------------------------------------------ bounds
MaxJobs == 2
MaxFollowers == 2
MaxFaults == 1
\* The largest settings.max_depth the concurrent specification is run with.
MaxJobsDepth == 1
\* How many times the clock advances in the specification with a clock.
MaxTicks == 3

\* --------------------------------------------------------- program constants
MinFollowers == 3000
MaxDepthSetting == 3
\* Redis cache TTL for user profiles, in seconds.
USER_CACHE_TTL == 86400

Handles == {"seed", "alice", "bob"}
FollowerCounts == {MinFollowers - 1, MinFollowers}
Messages == {"", "connection reset"}
JobIds == 1..MaxJobs

NoneV == <<>>
Some(x) == <<x>>

PENDING == "pending"
RUNNING == "running"
COMPLETED == "completed"
FAILED == "failed"

VARIABLES
  store,        \* Redis keys job:<id>: job id -> job record
  cache,        \* Redis keys user:<handle>: handle -> cached user_info
  profileOf,    \* the provider's answer to user_info_by_username, once revealed
  followersOf,  \* the provider's answer to user_followers, once revealed
  worker,       \* job id -> the state of its run_analysis background task
  faults,       \* number of Redis and provider calls that have failed so far
  polled,       \* the answer of GET /analyze/{job_id} on its way to the client
  settings,     \* get_settings(): read once from the environment
  logged_in,    \* whether the instagrapi session is authenticated
  now           \* the clock of the Redis server, in seconds

vars ==
  <<store, cache, profileOf, followersOf, worker, faults, polled, settings, logged_in, now>>

\* ----------------------------------------------------------------- values
Pk(h) == CASE h = "seed" -> 1 [] h = "alice" -> 2 [] h = "bob" -> 3 [] OTHER -> 4

UserInfo(h, count, private) ==
  [user_id |-> Pk(h), username |-> h, full_name |-> h, follower_count |-> count,
   following_count |-> 0, is_private |-> private]

FollowerInfo(info, depth) ==
  [username |-> info.username, full_name |-> info.full_name,
   follower_count |-> info.follower_count, following_count |-> info.following_count,
   is_private |-> info.is_private, depth |-> depth]

RECURSIVE SeqsUpTo(_, _)
SeqsUpTo(S, n) ==
  IF n = 0 THEN {<<>>}
  ELSE LET shorter == SeqsUpTo(S, n - 1)
       IN  shorter \cup {Append(s, x) : s \in shorter, x \in S}

NoDup(s) == \A i, k \in 1..Len(s) : i # k => s[i] # s[k]

\* user_followers returns a dict keyed by pk: no account is listed twice.
FollowerLists == {s \in SeqsUpTo(Handles, MaxFollowers) : NoDup(s)}

ProgressCreated == [kind |-> "created", username |-> "", n |-> 0]
ProgressAnalyzing(h, d) == [kind |-> "analyzing", username |-> h, n |-> d]
ProgressCompleted(n) == [kind |-> "completed", username |-> "", n |-> n]

ZeroCount == [h \in Handles |-> 0]

IdleWorker ==
  [pc |-> "idle", username |-> "", max_depth |-> 0, stack |-> <<>>, visited |-> {},
   results |-> <<>>, exc |-> NoneV,
   profileCalls |-> ZeroCount, followerCalls |-> ZeroCount, progressCalls |-> ZeroCount,
   calls |-> 0, cacheReads |-> 0, cacheHits |-> 0, cacheFaults |-> 0, unresolved |-> 0,
   loginRequired |-> 0,
   delays |-> 0, delayed |-> FALSE, externalCalls |-> 0, undelayed |-> 0]

Frame(h, d) ==
  [username |-> h, depth |-> d, phase |-> "entry", followers |-> <<>>, idx |-> 0,
   results |-> <<>>]

Top(w) == w.stack[Len(w.stack)]
SetTop(w, f) == [w EXCEPT !.stack[Len(w.stack)] = f]
Pop(w) == [w EXCEPT !.stack = SubSeq(w.stack, 1, Len(w.stack) - 1)]
Push(w, f) == [w EXCEPT !.stack = Append(w.stack, f)]

\* ------------------------------------------------------------ job store
get_job(id) == IF id \in DOMAIN store THEN Some(store[id]) ELSE NoneV

save_jobInto(st, id, job) == [i \in DOMAIN st \cup {id} |-> IF i = id THEN job ELSE st[i]]

save_job(id, job) == save_jobInto(store, id, job)

\* Lines 127-136.
NewJob(id, username, depth, s) ==
  [job_id |-> id, status |-> PENDING, target_username |-> username, depth |-> depth,
   min_followers |-> s.min_followers, results |-> <<>>, error |-> NoneV,
   progress |-> ProgressCreated]

\* background_tasks.add_task(run_analysis, job_id, request.username, request.depth)
ScheduledWorker(username, depth) ==
  [IdleWorker EXCEPT !.pc = "scheduled", !.username = username, !.max_depth = depth]

Settings(depth) == [min_followers |-> MinFollowers, max_depth |-> depth]

\* The accounts the concurrent specification runs on: seed and alice follow each
\* other and meet the threshold, bob follows seed and does not.
WorldProfiles ==
  [h \in Handles |-> UserInfo(h, IF h = "bob" THEN MinFollowers - 1 ELSE MinFollowers, FALSE)]

WorldFollowers ==
  [pk \in {Pk(h) : h \in Handles} |->
     CASE pk = Pk("seed") -> <<"alice", "bob">>
       [] pk = Pk("alice") -> <<"seed">>
       [] OTHER -> <<>>]

Init ==
  /\ store = <<>>
  /\ cache = <<>>
  /\ profileOf = WorldProfiles
  /\ followersOf = WorldFollowers
  /\ worker = [j \in JobIds |-> IdleWorker]
  /\ faults = 0
  /\ polled = NoneV
  /\ settings \in {Settings(d) : d \in 1..MaxJobsDepth}
  /\ logged_in \in BOOLEAN
  /\ now = 0

\* POST /analyze: uuid4 gives an identifier no earlier job has.
create_analysis(username, depth) ==
  /\ depth >= 1 /\ depth <= settings.max_depth
  /\ \E id \in JobIds :
       /\ id \notin DOMAIN store
       /\ \A k \in JobIds : k < id => k \in DOMAIN store
       /\ store' = save_job(id, NewJob(id, username, depth, settings))
       /\ worker' = [worker EXCEPT ![id] = ScheduledWorker(username, depth)]
  /\ UNCHANGED <<cache, profileOf, followersOf, faults, polled, settings, logged_in, now>>

\* ------------------------------------------------- analyze_recursive, locally
\* `return results` of the running call: the caller extends its own results with
\* the nested list and goes on with its next follower; the return of the
\* top-level call hands the list to run_analysis.
RECURSIVE Return(_, _), NextFollower(_)
\* The caller putting the nested list in front of its own items.
Return_nested_first(w, ret) ==
  IF Len(w.stack) = 1
  THEN [w EXCEPT !.stack = <<>>, !.pc = "returned", !.results = ret]
  ELSE LET p == Pop(w)
           parent == Top(p)
       IN  NextFollower(SetTop(p, [parent EXCEPT !.results = ret \o parent.results]))

Return(w, ret) ==
  IF Len(w.stack) = 1
  THEN [w EXCEPT !.stack = <<>>, !.pc = "returned", !.results = ret]
  ELSE LET p == Pop(w)
           parent == Top(p)
       IN  NextFollower(SetTop(p, [parent EXCEPT !.results = parent.results \o ret]))

\* The `for follower in followers` loop: the next follower, or the end of the loop.
NextFollower(w) ==
  LET f == Top(w)
  IN  IF f.idx < Len(f.followers)
      THEN SetTop(w, [f EXCEPT !.idx = f.idx + 1, !.phase = "follower_cache"])
      ELSE Return(w, f.results)

\* The call without its is_private test.
AfterTargetInfo_no_private_test(w, info) ==
  IF info = NoneV THEN Return(w, Top(w).results)
  ELSE SetTop(w, [Top(w) EXCEPT !.phase = "followers"])

\* Lines 172-178: what the call does with the target's user_info.
AfterTargetInfo(w, info) ==
  IF info = NoneV THEN Return(w, Top(w).results)
  ELSE IF info[1].is_private THEN Return(w, Top(w).results)
  ELSE SetTop(w, [Top(w) EXCEPT !.phase = "followers"])

MeetsThreshold_off_by_one(info) == info.follower_count >= settings.min_followers - 1

\* Line 191.
MeetsThreshold(info) == info.follower_count >= settings.min_followers

MayRecurse_at_max_depth(f, w, info) == f.depth <= w.max_depth /\ ~info.is_private

\* Line 204.
MayRecurse(f, w, info) == f.depth < w.max_depth /\ ~info.is_private

\* The loop body recursing into a follower whatever its follower count.
AfterFollowerInfo_explore_all(w, info) ==
  IF info = NoneV THEN NextFollower(w)
  ELSE LET f == Top(w)
           g == IF MeetsThreshold(info[1])
                THEN [f EXCEPT !.results = Append(f.results, FollowerInfo(info[1], f.depth))]
                ELSE f
       IN  IF MayRecurse(f, w, info[1])
           THEN Push(SetTop(w, [g EXCEPT !.phase = "nested"]),
                     Frame(info[1].username, f.depth + 1))
           ELSE NextFollower(SetTop(w, g))

\* Lines 187-213: what the loop body does with one follower's user_info.
AfterFollowerInfo(w, info) ==
  IF info = NoneV THEN NextFollower(w)
  ELSE IF MeetsThreshold(info[1])
  THEN LET f == Top(w)
           g == [f EXCEPT !.results = Append(f.results, FollowerInfo(info[1], f.depth))]
       IN  IF MayRecurse(f, w, info[1])
           THEN Push(SetTop(w, [g EXCEPT !.phase = "nested"]),
                     Frame(info[1].username, f.depth + 1))
           ELSE NextFollower(SetTop(w, g))
  ELSE NextFollower(w)

\* The handle get_user_info is resolving in the running call.
Resolving(f) ==
  IF f.phase \in {"target_cache", "target_fetch"} THEN f.username ELSE f.followers[f.idx]

AfterUserInfo(w, info) ==
  IF Top(w).phase \in {"target_cache", "target_fetch"}
  THEN AfterTargetInfo(w, info)
  ELSE AfterFollowerInfo(w, info)

\* An exception no handler of scraper.py catches leaves every pending call and
\* reaches the except clause of run_analysis.
Raise(w, msg) == [w EXCEPT !.stack = <<>>, !.pc = "raised", !.exc = Some(msg)]

Running(j) == worker[j].pc = "running" /\ worker[j].stack # <<>>

\* ------------------------------------------------------------ run_analysis
\* Lines 70-72 and the call of line 80.
StartJob(j) ==
  /\ worker[j].pc = "scheduled"
  /\ LET job == get_job(j)[1]
     IN  store' = save_job(j, [job EXCEPT !.status = RUNNING])
  /\ worker' = [worker EXCEPT ![j] =
                  [worker[j] EXCEPT !.pc = "running",
                                    !.stack = <<Frame(worker[j].username, 1)>>]]
  /\ UNCHANGED <<cache, profileOf, followersOf, faults, polled, settings, logged_in, now>>

\* on_progress saving the record run_analysis read before the traversal started.
on_progress_stale(j, msg) ==
  LET job == get_job(j)[1]
  IN  save_job(j, [job EXCEPT !.status = PENDING, !.progress = msg])

\* on_progress writing under the key of the first job whichever job reports.
on_progress_shared_key(j, msg) ==
  LET job == get_job(1)[1]
  IN  save_job(1, [job EXCEPT !.progress = msg])

\* Lines 74-77.
on_progress(j, msg) ==
  LET job == get_job(j)[1]
  IN  save_job(j, [job EXCEPT !.progress = msg])

\* The call without its `username in visited` test.
Enter_no_visited_test(j) ==
  /\ Running(j)
  /\ Top(worker[j]).phase = "entry"
  /\ LET w == [worker[j] EXCEPT !.calls = @ + 1]
         f == Top(w)
     IN  /\ worker' = [worker EXCEPT ![j] =
                SetTop([w EXCEPT !.visited = @ \cup {f.username},
                                 !.progressCalls[f.username] = @ + 1],
                       [f EXCEPT !.phase = "target_cache"])]
         /\ store' = on_progress(j, ProgressAnalyzing(f.username, f.depth))
  /\ UNCHANGED <<cache, profileOf, followersOf, faults, polled, settings, logged_in, now>>

\* The call adding the handle to visited only for the top-level target.
Enter_root_only_visited(j) ==
  /\ Running(j)
  /\ Top(worker[j]).phase = "entry"
  /\ LET w == [worker[j] EXCEPT !.calls = @ + 1]
         f == Top(w)
     IN  IF f.username \in w.visited
         THEN /\ worker' = [worker EXCEPT ![j] = Return(w, <<>>)]
              /\ UNCHANGED store
         ELSE /\ worker' = [worker EXCEPT ![j] =
                   SetTop([w EXCEPT !.visited = IF f.depth = 1 THEN @ \cup {f.username} ELSE @,
                                    !.progressCalls[f.username] = @ + 1],
                          [f EXCEPT !.phase = "target_cache"])]
              /\ store' = on_progress(j, ProgressAnalyzing(f.username, f.depth))
  /\ UNCHANGED <<cache, profileOf, followersOf, faults, polled, settings, logged_in, now>>

\* Lines 158-168.
Enter(j) ==
  /\ Running(j)
  /\ Top(worker[j]).phase = "entry"
  /\ LET w == [worker[j] EXCEPT !.calls = @ + 1]
         f == Top(w)
     IN  IF f.username \in w.visited
         THEN /\ worker' = [worker EXCEPT ![j] = Return(w, <<>>)]
              /\ UNCHANGED store
         ELSE /\ worker' = [worker EXCEPT ![j] =
                   SetTop([w EXCEPT !.visited = @ \cup {f.username},
                                    !.progressCalls[f.username] = @ + 1],
                          [f EXCEPT !.phase = "target_cache"])]
              /\ store' = on_progress(j, ProgressAnalyzing(f.username, f.depth))
  /\ UNCHANGED <<cache, profileOf, followersOf, faults, polled, settings, logged_in, now>>

\* The provider call made without waiting first.
RandomDelay_skipped(w) == w

\* _random_delay (67-70), taken for the provider call that follows it.
RandomDelay(w) == [w EXCEPT !.delays = @ + 1, !.delayed = TRUE]

\* A call of the instagrapi client; it uses up the delay taken for it.
ExternalCall(w) ==
  [w EXCEPT !.externalCalls = @ + 1,
            !.undelayed = IF w.delayed THEN @ ELSE @ + 1,
            !.delayed = FALSE]

\* Redis drops a key once its time to live has passed.
Fresh(h) == h \in DOMAIN cache /\ now < cache[h].expires_at

\* Lines 94-96 with _get_cached_user (72-81): a hit returns the cached dict, a
\* miss or a RedisError goes on to the provider; a value json.loads rejects
\* raises a ValueError, which no handler of scraper.py catches.
CacheLookup(j) ==
  /\ Running(j)
  /\ Top(worker[j]).phase \in {"target_cache", "follower_cache"}
  /\ LET w == [worker[j] EXCEPT !.cacheReads = @ + 1]
         f == Top(w)
         h == Resolving(f)
         toFetch == [f EXCEPT !.phase =
                       IF f.phase = "target_cache" THEN "target_fetch" ELSE "follower_fetch"]
     IN  \/ /\ Fresh(h)
            /\ worker' = [worker EXCEPT ![j] =
                            AfterUserInfo([w EXCEPT !.cacheHits = @ + 1], Some(cache[h].info))]
            /\ UNCHANGED faults
         \/ /\ ~Fresh(h)
            /\ worker' = [worker EXCEPT ![j] = SetTop(w, toFetch)]
            /\ UNCHANGED faults
         \/ /\ faults < MaxFaults
            /\ faults' = faults + 1
            /\ worker' = [worker EXCEPT ![j] = SetTop([w EXCEPT !.cacheFaults = @ + 1], toFetch)]
         \/ /\ Fresh(h)
            /\ faults < MaxFaults
            /\ faults' = faults + 1
            /\ worker' = [worker EXCEPT ![j] =
                            Raise([w EXCEPT !.cacheFaults = @ + 1], "Expecting value")]
  /\ UNCHANGED <<store, cache, profileOf, followersOf, polled, settings, logged_in, now>>

\* The entry written with twice the time to live.
CacheEntry_double_ttl(info) ==
  [info |-> info, written_at |-> now, expires_at |-> now + 2 * USER_CACHE_TTL]

\* setex(key, USER_CACHE_TTL, value) of line 86.
CacheEntry(info) == [info |-> info, written_at |-> now, expires_at |-> now + USER_CACHE_TTL]

\* _cache_user (83-89).
CacheWritten(h, info) ==
  [k \in DOMAIN cache \cup {h} |-> IF k = h THEN CacheEntry(info) ELSE cache[k]]

Reveal(f, k, v) == [x \in DOMAIN f \cup {k} |-> IF x = k THEN v ELSE f[x]]

\* The client raising LoginRequired, a ClientError, to the call in progress.
LoginRequired(w) == [w EXCEPT !.loginRequired = @ + 1]

\* get_user_info without its except clause: the ClientError leaves the call.
ProfileClientError_propagates(w) == Raise([w EXCEPT !.unresolved = @ + 1], "client error")

\* Lines 112-114: get_user_info answers a ClientError with None.
ProfileClientError(w) == AfterUserInfo([w EXCEPT !.unresolved = @ + 1], NoneV)

\* Lines 98-114: the delay, the provider call, the cache write. A session that
\* is not authenticated makes the client raise LoginRequired, a ClientError.
FetchProfile(j) ==
  /\ Running(j)
  /\ Top(worker[j]).phase \in {"target_fetch", "follower_fetch"}
  /\ LET h == Resolving(Top(worker[j]))
         w == ExternalCall(RandomDelay([worker[j] EXCEPT !.profileCalls[h] = @ + 1]))
     IN  \/ /\ logged_in
            /\ \E info \in IF h \in DOMAIN profileOf THEN {profileOf[h]}
                           ELSE {UserInfo(h, c, p) : c \in FollowerCounts, p \in BOOLEAN} :
                 /\ profileOf' = Reveal(profileOf, h, info)
                 /\ \/ /\ cache' = CacheWritten(h, info)
                       /\ worker' = [worker EXCEPT ![j] = AfterUserInfo(w, Some(info))]
                       /\ UNCHANGED faults
                    \/ /\ faults < MaxFaults
                       /\ faults' = faults + 1
                       /\ worker' = [worker EXCEPT ![j] =
                                       AfterUserInfo([w EXCEPT !.cacheFaults = @ + 1], Some(info))]
                       /\ UNCHANGED cache
            /\ UNCHANGED logged_in
         \/ /\ ~logged_in
            /\ worker' = [worker EXCEPT ![j] = ProfileClientError(LoginRequired(w))]
            /\ UNCHANGED <<cache, profileOf, faults, logged_in>>
         \/ /\ logged_in
            /\ faults < MaxFaults
            /\ faults' = faults + 1
            /\ \/ /\ worker' = [worker EXCEPT ![j] = ProfileClientError(w)]
                  /\ UNCHANGED logged_in
               \/ /\ worker' = [worker EXCEPT ![j] = ProfileClientError(LoginRequired(w))]
                  /\ logged_in' = FALSE
            /\ UNCHANGED <<cache, profileOf>>
         \/ /\ logged_in
            /\ faults < MaxFaults
            /\ faults' = faults + 1
            /\ \E msg \in Messages : worker' = [worker EXCEPT ![j] = Raise(w, msg)]
            /\ UNCHANGED <<cache, profileOf, logged_in>>
  /\ UNCHANGED <<store, followersOf, polled, settings, now>>

\* Line 181 with get_followers (116-134): a ClientError, LoginRequired among
\* them, is answered with the empty list.
FetchFollowers(j) ==
  /\ Running(j)
  /\ Top(worker[j]).phase = "followers"
  /\ LET h == Top(worker[j]).username
         w == ExternalCall(RandomDelay([worker[j] EXCEPT !.followerCalls[h] = @ + 1]))
         f == Top(w)
         none == NextFollower(SetTop(w, [f EXCEPT !.followers = <<>>]))
         rejected == NextFollower(SetTop(LoginRequired(w), [f EXCEPT !.followers = <<>>]))
     IN  \/ /\ logged_in
            /\ \E list \in IF Pk(h) \in DOMAIN followersOf THEN {followersOf[Pk(h)]}
                           ELSE FollowerLists :
                 /\ followersOf' = Reveal(followersOf, Pk(h), list)
                 /\ worker' = [worker EXCEPT ![j] =
                                 NextFollower(SetTop(w, [f EXCEPT !.followers = list]))]
            /\ UNCHANGED <<faults, logged_in>>
         \/ /\ ~logged_in
            /\ worker' = [worker EXCEPT ![j] = rejected]
            /\ UNCHANGED <<followersOf, faults, logged_in>>
         \/ /\ logged_in
            /\ faults < MaxFaults
            /\ faults' = faults + 1
            /\ \/ worker' = [worker EXCEPT ![j] = none] /\ UNCHANGED logged_in
               \/ worker' = [worker EXCEPT ![j] = rejected] /\ logged_in' = FALSE
            /\ UNCHANGED followersOf
         \/ /\ logged_in
            /\ faults < MaxFaults
            /\ faults' = faults + 1
            /\ \E msg \in Messages : worker' = [worker EXCEPT ![j] = Raise(w, msg)]
            /\ UNCHANGED <<followersOf, logged_in>>
  /\ UNCHANGED <<store, cache, profileOf, polled, settings, now>>

\* The completion written status first, the results left for a later write.
Complete_status_only(j) ==
  /\ worker[j].pc = "returned"
  /\ LET job == get_job(j)[1]
     IN  store' = save_job(j, [job EXCEPT !.status = COMPLETED])
  /\ worker' = [worker EXCEPT ![j].pc = "done"]
  /\ UNCHANGED <<cache, profileOf, followersOf, faults, polled, settings, logged_in, now>>

\* Lines 87-91.
Complete(j) ==
  /\ worker[j].pc = "returned"
  /\ LET job == get_job(j)[1]
         results == worker[j].results
     IN  store' = save_job(j, [job EXCEPT !.status = COMPLETED, !.results = results,
                                          !.progress = ProgressCompleted(Len(results))])
  /\ worker' = [worker EXCEPT ![j].pc = "done"]
  /\ UNCHANGED <<cache, profileOf, followersOf, faults, polled, settings, logged_in, now>>

\* The except clause logging the exception and leaving the record as it is.
Fail_log_only(j) ==
  /\ worker[j].pc = "raised"
  /\ worker' = [worker EXCEPT ![j].pc = "done"]
  /\ UNCHANGED <<store, cache, profileOf, followersOf, faults, polled, settings, logged_in,
                 now>>

\* The except clause storing a fixed text in place of str(e).
Fail_generic_message(j) ==
  /\ worker[j].pc = "raised"
  /\ LET job == get_job(j)[1]
     IN  store' = save_job(j, [job EXCEPT !.status = FAILED, !.error = Some("analysis failed")])
  /\ worker' = [worker EXCEPT ![j].pc = "done"]
  /\ UNCHANGED <<cache, profileOf, followersOf, faults, polled, settings, logged_in, now>>

\* Lines 95-100.
Fail(j) ==
  /\ worker[j].pc = "raised"
  /\ LET job == get_job(j)[1]
     IN  store' = save_job(j, [job EXCEPT !.status = FAILED, !.error = worker[j].exc])
  /\ worker' = [worker EXCEPT ![j].pc = "done"]
  /\ UNCHANGED <<cache, profileOf, followersOf, faults, polled, settings, logged_in, now>>

\* The endpoint answering 404 for a job whose worker has not started.
get_analysis_404_pending(id) ==
  /\ polled = NoneV
  /\ LET job == get_job(id)
         found == job # NoneV /\ job[1].status # PENDING
     IN  polled' = Some([job_id |-> id,
                         status_code |-> IF found THEN 200 ELSE 404,
                         job |-> IF found THEN job ELSE NoneV])
  /\ UNCHANGED <<store, cache, profileOf, followersOf, worker, faults, settings, logged_in, now>>

\* GET /analyze/{job_id}: 404, or the stored record.
get_analysis(id) ==
  /\ polled = NoneV
  /\ polled' = Some([job_id |-> id,
                     status_code |-> IF get_job(id) = NoneV THEN 404 ELSE 200,
                     job |-> get_job(id)])
  /\ UNCHANGED <<store, cache, profileOf, followersOf, worker, faults, settings, logged_in, now>>

\* The client takes the response.
Respond ==
  /\ polled # NoneV
  /\ polled' = NoneV
  /\ UNCHANGED <<store, cache, profileOf, followersOf, worker, faults, settings, logged_in, now>>

Next ==
  \/ \E h \in Handles, d \in 1..MaxDepthSetting : create_analysis(h, d)
  \/ \E j \in JobIds : StartJob(j)
  \/ \E j \in JobIds : Enter(j)
  \/ \E j \in JobIds : CacheLookup(j)
  \/ \E j \in JobIds : FetchProfile(j)
  \/ \E j \in JobIds : FetchFollowers(j)
  \/ \E j \in JobIds : Complete(j)
  \/ \E j \in JobIds : Fail(j)
  \/ \E id \in JobIds : get_analysis(id)
  \/ Respond

Spec == Init /\ [][Next]_vars

\* The steps of the background task of job j. Starlette runs each task in a
\* thread of its pool, and a thread that can go on is scheduled again.
WorkerStep(j) ==
  \/ StartJob(j)
  \/ Enter(j)
  \/ CacheLookup(j)
  \/ FetchProfile(j)
  \/ FetchFollowers(j)
  \/ Complete(j)
  \/ Fail(j)

SpecFair == Init /\ [][Next]_vars /\ \A j \in JobIds : WF_vars(WorkerStep(j))

\* One traversal on its own: a job submitted for any target and depth under the
\* default settings, and the steps of its worker.
InitTraverse ==
  /\ settings = Settings(MaxDepthSetting)
  /\ \E h \in Handles, d \in 1..MaxDepthSetting :
       /\ store = save_jobInto(<<>>, 1, NewJob(1, h, d, settings))
       /\ worker = [j \in JobIds |-> IF j = 1 THEN ScheduledWorker(h, d) ELSE IdleWorker]
  /\ cache = <<>>
  /\ profileOf = <<>>
  /\ followersOf = <<>>
  /\ faults = 0
  /\ polled = NoneV
  /\ logged_in \in BOOLEAN
  /\ now = 0

NextTraverse ==
  \/ StartJob(1)
  \/ Enter(1)
  \/ CacheLookup(1)
  \/ FetchProfile(1)
  \/ FetchFollowers(1)
  \/ Complete(1)
  \/ Fail(1)

SpecTraverse == InitTraverse /\ [][NextTraverse]_vars

\* The clock moves in steps of half the time to live. It stands still in the
\* other specifications, whose runs are short against the time to live.
TickSeconds == USER_CACHE_TTL \div 2

Tick ==
  /\ now < MaxTicks * TickSeconds
  /\ now' = now + TickSeconds
  /\ UNCHANGED <<store, cache, profileOf, followersOf, worker, faults, polled, settings,
                 logged_in>>

\* One traversal of the accounts of WorldProfiles while the clock runs.
InitExpiry ==
  /\ settings = Settings(MaxDepthSetting)
  /\ \E h \in Handles, d \in 1..MaxDepthSetting :
       /\ store = save_jobInto(<<>>, 1, NewJob(1, h, d, settings))
       /\ worker = [j \in JobIds |-> IF j = 1 THEN ScheduledWorker(h, d) ELSE IdleWorker]
  /\ cache = <<>>
  /\ profileOf = WorldProfiles
  /\ followersOf = WorldFollowers
  /\ faults = 0
  /\ polled = NoneV
  /\ logged_in = TRUE
  /\ now = 0

NextExpiry ==
  \/ NextTraverse
  \/ Tick

SpecExpiry == InitExpiry /\ [][NextExpiry]_vars

\* ------------------------------------------------------------------ claims
Transitions == {<<PENDING, RUNNING>>, <<RUNNING, COMPLETED>>, <<RUNNING, FAILED>>}

\* C1: a job's stored status starts as Pending at submission and afterwards only
\* moves Pending -> Running -> Completed or Pending -> Running -> Failed; a stored
\* record is never removed and a Completed or Failed status never changes.
C1_StatusStep ==
  \A id \in JobIds :
    /\ (id \notin DOMAIN store /\ id \in DOMAIN store') => store'[id].status = PENDING
    /\ id \in DOMAIN store =>
         /\ id \in DOMAIN store'
         /\ \/ store'[id].status = store[id].status
            \/ <<store[id].status, store'[id].status>> \in Transitions

C1_Lifecycle == [][C1_StatusStep]_vars

C1_Witness ==
  \E j, k \in DOMAIN store :
    /\ store[j].status = COMPLETED /\ store[k].status = FAILED
    /\ worker[j].progressCalls # ZeroCount /\ worker[k].progressCalls # ZeroCount

\* C2: whenever a job's stored status is Completed, its stored results are the
\* list its traversal returned, its progress is the summary with that list's
\* length, and its error is None.
C2_CompletedRecord ==
  \A id \in DOMAIN store :
    store[id].status = COMPLETED =>
      /\ worker[id].pc = "done"
      /\ store[id].results = worker[id].results
      /\ store[id].progress = ProgressCompleted(Len(worker[id].results))
      /\ store[id].error = NoneV

C2_Witness ==
  \E id \in DOMAIN store :
    /\ store[id].status = COMPLETED
    /\ store[id].results # <<>>
    /\ polled # NoneV /\ polled[1].job = Some(store[id])

\* C3: whenever a job's stored status is Failed, its stored error is a non-empty
\* message.
C3_FailedHasMessage ==
  \A id \in DOMAIN store :
    store[id].status = FAILED => (store[id].error # NoneV /\ store[id].error[1] # "")

\* --------------------------------------------------- claims on the traversal
Known(h) == h \in DOMAIN profileOf

\* The traversal of job j returned normally.
Returned(j) == worker[j].pc = "returned" \/ (worker[j].pc = "done" /\ worker[j].exc = NoneV)

RECURSIVE Flatten(_)
Flatten(stack) ==
  IF stack = <<>> THEN <<>> ELSE stack[1].results \o Flatten(Tail(stack))

\* The items the traversal has produced so far, in the order of the returned list.
Accumulated(w) == IF w.stack = <<>> THEN w.results ELSE Flatten(w.stack)

Count(items, h) == Cardinality({i \in 1..Len(items) : items[i].username = h})

Listed(h, target) ==
  /\ Pk(target) \in DOMAIN followersOf
  /\ \E i \in 1..Len(followersOf[Pk(target)]) : followersOf[Pk(target)][i] = h

\* C4: every item of the list traverse returns, and of every list a nested call
\* returns, has a follower count of at least min_followers.
C4_ThresholdOnItems ==
  \A j \in JobIds :
    LET items == Accumulated(worker[j])
    IN  \A i \in 1..Len(items) : items[i].follower_count >= settings.min_followers

C4_Witness ==
  /\ Returned(1)
  /\ worker[1].results # <<>>
  /\ \E h \in Handles :
       /\ Known(h) /\ profileOf[h].follower_count < settings.min_followers
       /\ Listed(h, worker[1].username)

\* C5: every item produced by a traversal started at depth 1 carries a depth
\* between 1 and max_depth.
C5_DepthOfItems ==
  \A j \in JobIds :
    LET items == Accumulated(worker[j])
    IN  \A i \in 1..Len(items) : 1 <= items[i].depth /\ items[i].depth <= worker[j].max_depth

C5_Witness ==
  /\ Returned(1)
  /\ worker[1].max_depth = MaxDepthSetting
  /\ \E i \in 1..Len(worker[1].results) : worker[1].results[i].depth = MaxDepthSetting

\* C6: the follower list of a private account is never fetched, and a traversal
\* whose target is private returns the empty list.
C6_PrivateTarget ==
  \A j \in JobIds :
    /\ \A h \in Handles :
         (Known(h) /\ profileOf[h].is_private) => worker[j].followerCalls[h] = 0
    /\ (/\ Returned(j)
        /\ Known(worker[j].username)
        /\ profileOf[worker[j].username].is_private) => worker[j].results = <<>>

C6_Witness ==
  /\ Returned(1)
  /\ faults = 0
  /\ worker[1].profileCalls[worker[1].username] = 1
  /\ Known(worker[1].username)
  /\ profileOf[worker[1].username].is_private
  /\ worker[1].results = <<>>

Selected(h) ==
  Known(h) /\ profileOf[h].follower_count >= settings.min_followers /\ ~profileOf[h].is_private

MutualCycle(a, b) ==
  /\ a # b
  /\ Pk(a) \in DOMAIN followersOf /\ followersOf[Pk(a)] = <<b>>
  /\ Pk(b) \in DOMAIN followersOf /\ followersOf[Pk(b)] = <<a>>
  /\ Selected(a) /\ Selected(b)

OnCycle == \E a, b \in Handles : MutualCycle(a, b) /\ worker[1].username \in {a, b}

\* C7: when the target is on a mutual-follow cycle of two public accounts that
\* meet the threshold, the traversal makes at most three calls of
\* analyze_recursive, none nested deeper than three, and so ends; the list it
\* builds holds each of the two accounts at most once.
C7_MutualCycle ==
  \A a, b \in Handles :
    (MutualCycle(a, b) /\ worker[1].username \in {a, b}) =>
      /\ Count(Accumulated(worker[1]), a) <= 1
      /\ Count(Accumulated(worker[1]), b) <= 1
      /\ worker[1].calls <= 3
      /\ Len(worker[1].stack) <= 3
      /\ worker[1].progressCalls[a] <= 1 /\ worker[1].progressCalls[b] <= 1

C7_Witness ==
  /\ OnCycle
  /\ Returned(1)
  /\ worker[1].max_depth = MaxDepthSetting
  /\ worker[1].calls = 3
  /\ Len(worker[1].results) = 2

C8_VisitedFirst ==
  \A j \in JobIds :
    /\ \A i \in 1..Len(worker[j].stack) :
         worker[j].stack[i].phase # "entry" => worker[j].stack[i].username \in worker[j].visited
    /\ \A h \in Handles :
         /\ worker[j].progressCalls[h] <= 1
         /\ (worker[j].progressCalls[h] > 0 \/ worker[j].followerCalls[h] > 0)
              => h \in worker[j].visited

\* The work of a traversal is bounded by the visited set, the follower lists and
\* max_depth.
C8_Bounded ==
  \A j \in JobIds :
    LET w == worker[j]
        explored == Cardinality(w.visited)
    IN  /\ Len(w.stack) <= w.max_depth
        /\ Len(w.stack) <= explored + 1
        /\ w.calls <= 1 + explored * MaxFollowers
        /\ w.cacheReads <= explored * (1 + MaxFollowers)
        /\ w.externalCalls <= w.cacheReads + explored

PcRank(pc) ==
  CASE pc = "idle" -> 0 [] pc = "scheduled" -> 1 [] pc = "running" -> 2
    [] pc = "done" -> 4 [] OTHER -> 3

\* Every step of a worker moves it forward.
C8_Progress ==
  \A j \in JobIds :
    worker'[j] # worker[j] =>
      \/ PcRank(worker'[j].pc) > PcRank(worker[j].pc)
      \/ /\ worker'[j].pc = worker[j].pc
         /\ worker'[j].calls + worker'[j].cacheReads + worker'[j].externalCalls
              > worker[j].calls + worker[j].cacheReads + worker[j].externalCalls

\* The guards of the worker's actions: the steps of run_analysis and of the
\* running call of analyze_recursive.
StepEnabled(j) ==
  \/ worker[j].pc \in {"scheduled", "returned", "raised"}
  \/ /\ Running(j)
     /\ Top(worker[j]).phase \in {"entry", "target_cache", "target_fetch", "followers",
                                   "follower_cache", "follower_fetch"}

\* A worker that has started and not finished has a step to take.
C8_NotStuck == \A j \in JobIds : worker[j].pc \in {"idle", "done"} \/ StepEnabled(j)

C8_VisitedReturn ==
  \A j \in JobIds :
    (/\ Running(j)
     /\ Top(worker[j]).phase = "entry"
     /\ Top(worker[j]).username \in worker[j].visited
     /\ worker'[j] # worker[j]) =>
      /\ store' = store
      /\ worker'[j].visited = worker[j].visited
      /\ worker'[j].progressCalls = worker[j].progressCalls
      /\ worker'[j].profileCalls = worker[j].profileCalls
      /\ worker'[j].followerCalls = worker[j].followerCalls
      /\ worker'[j].externalCalls = worker[j].externalCalls
      /\ Accumulated(worker'[j]) = Accumulated(worker[j])

\* C8: every traversal ends: each step of the worker moves it forward, its work
\* is bounded by the visited set, the follower lists and max_depth, and it is
\* never stuck before it is done. A call has put its handle into visited before
\* it resolves, explores or recurses, so no handle is explored twice; and a call
\* on a visited handle returns the empty list with no progress event and no
\* provider call.
C8_Termination ==
  /\ [](C8_VisitedFirst /\ C8_Bounded /\ C8_NotStuck)
  /\ [][C8_VisitedReturn /\ C8_Progress]_vars

C8_Witness ==
  /\ Running(1)
  /\ Len(worker[1].stack) = MaxDepthSetting
  /\ Top(worker[1]).phase = "entry"
  /\ Top(worker[1]).username \in worker[1].visited

\* C9: within one traversal the provider's profile fetch runs at most once for a
\* handle.
C9_OneFetchPerHandle ==
  \A j \in JobIds : \A h \in Handles : worker[j].profileCalls[h] <= 1

\* C10: apart from the top-level target, an account is explored (progress event,
\* follower-list fetch) only if it met the threshold, is public and was appended
\* to the results, at a depth within max_depth; an account below the threshold
\* is never explored.
C10_RecursionGate ==
  \A j \in JobIds :
    /\ \A i \in 1..Len(worker[j].stack) : worker[j].stack[i].depth <= worker[j].max_depth
    /\ \A h \in Handles :
         /\ worker[j].followerCalls[h] > 0 => worker[j].progressCalls[h] > 0
         /\ (h # worker[j].username /\ worker[j].progressCalls[h] > 0) =>
              /\ Selected(h)
              /\ (worker[j].pc = "running" \/ Returned(j)) =>
                   Count(Accumulated(worker[j]), h) >= 1
         /\ (/\ h # worker[j].username
             /\ Known(h)
             /\ profileOf[h].follower_count < settings.min_followers) =>
              (worker[j].progressCalls[h] = 0 /\ worker[j].followerCalls[h] = 0)

C10_Witness ==
  /\ Returned(1)
  /\ worker[1].max_depth > 1
  /\ \E h \in Handles :
       /\ h # worker[1].username
       /\ Listed(h, worker[1].username)
       /\ Known(h)
       /\ ~profileOf[h].is_private
       /\ profileOf[h].follower_count < settings.min_followers
       /\ worker[1].profileCalls[h] > 0
       /\ worker[1].progressCalls[h] = 0

\* ------------------------------------------------- the order of the results
\* The depth-first pre-order walk of the revealed graph, written as a function:
\* RefCall is one call of the walk on handle h at depth d with the handles
\* already explored, RefLoop its pass over the follower list from position i.
\* Both give the items found and the handles explored afterwards.
RECURSIVE RefCall(_, _, _, _), RefLoop(_, _, _, _, _, _)
RefCall(h, d, maxd, seen) ==
  IF h \in seen THEN [items |-> <<>>, seen |-> seen]
  ELSE IF ~Known(h) \/ profileOf[h].is_private \/ Pk(h) \notin DOMAIN followersOf
  THEN [items |-> <<>>, seen |-> seen \cup {h}]
  ELSE RefLoop(followersOf[Pk(h)], 1, d, maxd, seen \cup {h}, <<>>)

RefLoop(list, i, d, maxd, seen, acc) ==
  IF i > Len(list) THEN [items |-> acc, seen |-> seen]
  ELSE IF ~Known(list[i]) \/ profileOf[list[i]].follower_count < settings.min_followers
  THEN RefLoop(list, i + 1, d, maxd, seen, acc)
  ELSE LET info == profileOf[list[i]]
           own == Append(acc, FollowerInfo(info, d))
       IN  IF d < maxd /\ ~info.is_private
           THEN LET sub == RefCall(list[i], d + 1, maxd, seen)
                IN  RefLoop(list, i + 1, d, maxd, sub.seen, own \o sub.items)
           ELSE RefLoop(list, i + 1, d, maxd, seen, own)

Reference(j) == RefCall(worker[j].username, 1, worker[j].max_depth, {}).items

\* C11: when no call failed, the list traverse returns is the depth-first
\* pre-order walk of the graph: followers in the provider's order, each
\* qualifying follower's item followed at once by the items found by recursing
\* into it, then the items of its later siblings.
C11_PreOrder ==
  \A j \in JobIds :
    (Returned(j) /\ faults = 0) => worker[j].results = Reference(j)

\* A nested item sits between two siblings, the second of them private.
C11_Witness ==
  /\ Returned(1) /\ faults = 0
  /\ Len(worker[1].results) = 3
  /\ worker[1].results[1].depth = 1
  /\ worker[1].results[2].depth = 2
  /\ worker[1].results[3].depth = 1
  /\ worker[1].results[3].is_private
  /\ worker[1].results[1].username # worker[1].results[3].username

\* ------------------------------------------------------- claims on failures
\* The traversal of job j ended after one resolution, that of its target, and
\* the provider did not resolve it.
RootUnresolved(j) ==
  /\ worker[j].pc \in {"returned", "raised", "done"}
  /\ worker[j].cacheReads = 1
  /\ worker[j].unresolved = 1

\* C12 as stated: a job whose top-level call raised, as when the provider
\* cannot resolve the root target's profile, ends Failed with the error's
\* message stored.
C12_RootFailureFailsJob ==
  \A j \in JobIds :
    (worker[j].pc = "done" /\ (worker[j].exc # NoneV \/ RootUnresolved(j))) =>
      (store[j].status = FAILED /\ store[j].error # NoneV)

C12_Stored ==
  \A j \in DOMAIN store :
    /\ store[j].status = FAILED <=> (worker[j].pc = "done" /\ worker[j].exc # NoneV)
    /\ store[j].status = FAILED => store[j].error = worker[j].exc
    /\ (worker[j].pc = "done" /\ RootUnresolved(j)) =>
         /\ store[j].status = COMPLETED
         /\ store[j].results = <<>>
         /\ store[j].error = NoneV

C12_Step ==
  \A j \in JobIds :
    /\ (worker[j].exc = NoneV /\ worker'[j].exc # NoneV) =>
         /\ worker[j].pc = "running"
         /\ worker'[j].pc = "raised" /\ worker'[j].stack = <<>>
         /\ store' = store
    /\ (worker[j].pc = "raised" /\ worker'[j] # worker[j]) =>
         /\ store[j].status = RUNNING
         /\ store'[j].status = FAILED
         /\ store'[j].error = worker[j].exc
         /\ worker'[j].pc = "done"

\* C12 amended: an exception that leaves the top-level call of analyze_recursive
\* reaches run_analysis with every pending call abandoned, and the job goes
\* Running -> Failed with str(e) stored as its error; a job is Failed only in
\* this way. A ClientError while resolving the root target is not such an
\* exception: get_user_info returns None, the traversal returns the empty list
\* and the job is Completed with no results and no error.
C12_RaisedFailsJob == []C12_Stored /\ [][C12_Step]_vars

\* An exception raised while a follower was being resolved has failed the job.
C12_Witness ==
  \E j \in DOMAIN store :
    /\ store[j].status = FAILED
    /\ store[j].error = Some("connection reset")
    /\ worker[j].cacheReads > 1
    /\ worker[j].profileCalls[worker[j].username] = 1

\* C13: a job one of whose provider calls was refused for want of an
\* authenticated session (the login at start-up failed, or the session was
\* rejected during the call) ends Failed and never Completed.
C13_AuthFailureFailsJob ==
  \A j \in DOMAIN store :
    worker[j].loginRequired > 0 =>
      /\ store[j].status # COMPLETED
      /\ worker[j].pc = "done" => store[j].status = FAILED

IsPrefix(a, b) == Len(a) <= Len(b) /\ SubSeq(b, 1, Len(a)) = a

\* What a step does in which the provider fails to resolve a profile.
C14_Step ==
  \A j \in JobIds :
    LET w == worker[j]
        v == worker'[j]
    IN  /\ (v # w /\ v.exc = NoneV) => IsPrefix(Accumulated(w), Accumulated(v))
        /\ v.unresolved > w.unresolved =>
             /\ v.pc \in {"running", "returned"} /\ v.exc = NoneV
             /\ Accumulated(v) = Accumulated(w)
             /\ store' = store
             /\ (Top(w).phase = "follower_fetch" /\ Top(w).idx < Len(Top(w).followers)) =>
                  /\ Len(v.stack) = Len(w.stack)
                  /\ Top(v) = [Top(w) EXCEPT !.idx = @ + 1, !.phase = "follower_cache"]
             /\ (Top(w).phase = "target_fetch" /\ Len(w.stack) > 1) =>
                  /\ Len(v.stack) < Len(w.stack)
                  /\ v.visited = w.visited

C14_Ends ==
  \A j \in DOMAIN store :
    (worker[j].pc = "done" /\ worker[j].exc = NoneV) =>
      (store[j].status = COMPLETED /\ store[j].results = worker[j].results)

\* C14: a ClientError of the provider while one follower's profile, or the
\* profile of a recursion target below the root, is resolved ends only that
\* branch: nothing is added for it, the items found before stay at the front of
\* the list in their order and later items are appended behind them, the loop
\* goes on with the next follower, the traversal returns normally and the job is
\* Completed with the list.
C14_BranchOnly == []C14_Ends /\ [][C14_Step]_vars

\* The first of two followers was not resolved, the second is in the results.
C14_Witness ==
  /\ worker[1].pc = "done" /\ worker[1].exc = NoneV
  /\ worker[1].unresolved = 1
  /\ store[1].status = COMPLETED
  /\ \E a, b \in Handles :
       /\ Pk(worker[1].username) \in DOMAIN followersOf
       /\ followersOf[Pk(worker[1].username)] = <<a, b>>
       /\ ~Known(a) /\ Known(b)
       /\ worker[1].profileCalls[a] = 1
       /\ worker[1].results = <<FollowerInfo(profileOf[b], 1)>>

\* C15: when the only calls that failed were calls of the cache's store (a
\* connection failure, or a stored value that cannot be decoded), no exception
\* leaves the traversal and the list it returns is the one a working cache
\* gives.
C15_CacheFailureHarmless ==
  \A j \in JobIds :
    worker[j].cacheFaults = faults =>
      /\ worker[j].exc = NoneV
      /\ Returned(j) => worker[j].results = Reference(j)

\* ------------------------------------------------------ claims on the cache
\* The expiry window of a cached profile: 24 hours, in seconds.
ExpiryWindow == 24 * 60 * 60

Age(h) == now - cache[h].written_at

C16_Step ==
  \A j \in JobIds :
    LET w == worker[j]
        v == worker'[j]
    IN  /\ v.cacheReads > w.cacheReads =>
             LET h == Resolving(Top(w))
             IN  /\ v.cacheHits > w.cacheHits =>
                      (h \in DOMAIN cache /\ Age(h) <= ExpiryWindow)
                 /\ (h \in DOMAIN cache /\ Age(h) > ExpiryWindow) =>
                      /\ v.cacheHits = w.cacheHits
                      /\ v.pc = "running" /\ Len(v.stack) = Len(w.stack)
                      /\ Top(v).phase \in {"target_fetch", "follower_fetch"}
                      /\ Resolving(Top(v)) = h
                 /\ cache' = cache
        /\ v.externalCalls > w.externalCalls =>
             \A h \in DOMAIN cache' :
               (h \notin DOMAIN cache \/ cache'[h] # cache[h]) =>
                 /\ v.profileCalls[h] > w.profileCalls[h]
                 /\ cache'[h].info = profileOf'[h]
                 /\ cache'[h].written_at = now
                 /\ now < cache'[h].expires_at

C16_OnlyFetchWrites ==
  cache' # cache => \E j \in JobIds : worker'[j].externalCalls > worker[j].externalCalls

\* C16: a lookup returns a cached profile only while the time since its last
\* write is within the 24-hour window; an entry written longer ago is treated as
\* absent, the resolution goes on to the provider, and a successful fetch
\* overwrites the entry with the current time. Nothing else writes the cache.
C16_Expiry == [][C16_Step /\ C16_OnlyFetchWrites]_vars

\* An entry outlived its window and was written again by a second fetch.
C16_Witness ==
  /\ faults = 0
  /\ \E h \in DOMAIN cache :
       /\ worker[1].profileCalls[h] = 2
       /\ cache[h].written_at > ExpiryWindow
       /\ Age(h) = 0
  /\ worker[1].cacheHits > 0

\* ------------------------------------------------- claims on provider calls
C17_Delayed ==
  \A j \in JobIds :
    /\ worker[j].undelayed = 0
    /\ worker[j].delays = worker[j].externalCalls
    /\ ~worker[j].delayed

C17_Step ==
  \A j \in JobIds :
    LET w == worker[j]
        v == worker'[j]
    IN  /\ v.externalCalls > w.externalCalls =>
             (v.externalCalls = w.externalCalls + 1 /\ v.delays = w.delays + 1)
        /\ v.cacheHits > w.cacheHits =>
             (v.externalCalls = w.externalCalls /\ v.delays = w.delays)
        /\ v.delays > w.delays => v.externalCalls > w.externalCalls

\* C17: every profile fetch and every follower-list fetch is made after a
\* random delay taken for that call and for no other, so there is a delay
\* between any two consecutive provider calls and none is made without one; a
\* resolution answered by the cache makes no provider call and takes no delay.
C17_DelayBeforeCall == []C17_Delayed /\ [][C17_Step]_vars

C17_Witness ==
  /\ Returned(1)
  /\ worker[1].cacheHits > 0
  /\ worker[1].externalCalls > MaxFollowers
  /\ \E h \in Handles : worker[1].profileCalls[h] > 0 /\ worker[1].followerCalls[h] > 0

\* ------------------------------------------------- claims on the job store
\* A job with this identifier has been submitted: its background task exists.
Submitted(id) == worker[id].pc # "idle"

C18_Kept == \A id \in JobIds : Submitted(id) <=> id \in DOMAIN store

C18_Step ==
  (polled = NoneV /\ polled' # NoneV) =>
    LET r == polled'[1]
    IN  /\ r.status_code \in {200, 404}
        /\ r.status_code = 404 <=> ~Submitted(r.job_id)
        /\ r.status_code = 404 => r.job = NoneV
        /\ r.status_code = 200 =>
             /\ r.job = Some(store[r.job_id])
             /\ r.job[1].job_id = r.job_id
             /\ r.job[1].status \in {PENDING, RUNNING, COMPLETED, FAILED}

\* C18: GET /analyze/{job_id} answers 404 exactly when no job with that
\* identifier has been submitted; for a submitted identifier it answers with the
\* record stored for it, whose status is one of the four, since no record is
\* ever deleted.
C18_NotFoundIffNeverSubmitted == []C18_Kept /\ [][C18_Step]_vars

\* One identifier answered 404 while another job is stored and finished.
C18_Witness ==
  /\ polled # NoneV
  /\ polled[1].status_code = 404
  /\ \E id \in DOMAIN store : store[id].status \in {COMPLETED, FAILED}

C19_Step ==
  \A j \in JobIds :
    /\ worker'[j].progressCalls # worker[j].progressCalls =>
         /\ j \in DOMAIN store
         /\ store' = [store EXCEPT ![j].progress = store'[j].progress]
         /\ store'[j].progress =
              ProgressAnalyzing(Top(worker[j]).username, Top(worker[j]).depth)
    /\ (j \in DOMAIN store /\ j \in DOMAIN store' /\ store'[j] # store[j]) =>
         /\ worker[j].pc \in {"scheduled", "running", "returned", "raised"}
         /\ worker'[j] # worker[j]
         /\ \A k \in JobIds \ {j} : worker'[k] = worker[k]
    /\ (j \notin DOMAIN store /\ j \in DOMAIN store') =>
         /\ worker[j].pc = "idle" /\ worker'[j].pc = "scheduled"
         /\ \A k \in DOMAIN store : store'[k] = store[k]

\* C19: a progress callback of job J changes the progress field of J's record
\* and nothing else: J's other fields and every other job's record stay as they
\* were. A record is created by its submission and afterwards changed only by
\* steps of its own worker.
C19_ProgressFrame == [][C19_Step]_vars

\* Two jobs are running and each record shows its own job's progress.
C19_Witness ==
  /\ \A j \in JobIds :
       /\ j \in DOMAIN store
       /\ store[j].status = RUNNING
       /\ worker[j].progressCalls[worker[j].username] = 1
       /\ store[j].progress = ProgressAnalyzing(worker[j].username, 1)
  /\ \E j, k \in JobIds : worker[j].username # worker[k].username

Unfinished(j) == j \in DOMAIN store /\ store[j].status \in {PENDING, RUNNING}

Finished(j) == j \in DOMAIN store /\ store[j].status \in {COMPLETED, FAILED}

\* C20: with every worker scheduled fairly and every call returning, a job
\* that is Pending or Running is eventually Completed or Failed, whatever other
\* jobs run beside it.
C20_EventuallyTerminal == \A j \in JobIds : Unfinished(j) ~> Finished(j)

\* Two jobs that ran side by side have both reached a terminal status.
C20_Witness ==
  /\ \A j \in JobIds : Finished(j) /\ worker[j].calls > 0
  /\ \E j \in JobIds : store[j].status = COMPLETED /\ store[j].results # <<>>

\* ------------------------------------------------ claims on repeated handles
\* C21: the list one traversal returns holds each handle at most once, also
\* when two explored accounts list the same follower and when the target is a
\* follower of an explored account.
C21_EachHandleOnce ==
  \A j \in JobIds :
    Returned(j) => \A h \in Handles : Count(worker[j].results, h) <= 1
====
